---- MODULE Spec2Model ----
(***************************************************************************)
(* Trigger / poll / retry logic of the CruGlobal/dot cloud functions:       *)
(*   - dbt-trigger:      main.trigger_dbt_job on top of DbtClient           *)
(*   - fivetran-trigger: FivetranClient.trigger_sync and _request           *)
(*   - okta-sync:        okta_sync_utils.get_request                        *)
(* Every external API answer is an input chosen by the environment.         *)
(***************************************************************************)
EXTENDS Integers, Sequences, FiniteSets, TLC

VARIABLES
    \* ---- dbt-trigger/main.py: trigger_dbt_job ----
    request_json,         \* body of the incoming request
    pc,                   \* position of the handler
    wait_for_completion,  \* local of trigger_dbt_job: "unbound", "true", "false"
    run_id,               \* id returned by the trigger request
    run_details,          \* last response read by the wait loop
    is_complete,          \* loop variable
    exit_code,            \* result of determine_run_status
    returned,             \* value returned by the handler
    exception,            \* exception that left the handler
    error_details,        \* failure summary raised as RuntimeError
    log,                  \* messages written to the logger
    trigger_calls,        \* POST .../jobs/<job_id>/run/ requests sent
    status_calls,         \* GET .../runs/<run_id>/ requests sent
    sleeps,               \* time.sleep(30) calls made
    last_step,            \* last external step: "none", "trigger", "status", "sleep"
    last_status,          \* flags of the last answer to a status request
    trigger_status,       \* HTTP status of the answer to the trigger request (0: none)
    \* ---- fivetran-trigger/fivetran_client.py: FivetranClient.trigger_sync ----
    ft_pc,
    connector_exists,
    ft_wait,              \* wait_for_completion argument
    prev_success,
    prev_failure,
    new_success,
    new_failure,
    ft_exit_code,         \* exit code of the ExitCodeException raised, 0 if none
    ft_exception,         \* class of the exception that left trigger_sync
    ft_force_calls,       \* POST connectors/<id>/force requests sent
    ft_status_calls,      \* GET connectors/<id> requests sent
    ft_polls,             \* GET connectors/<id> requests sent by the wait loop
    ft_sleeps,
    ft_last_step,
    ft_last_answer,       \* answer to the last request sent by trigger_sync
    \* ---- fivetran-trigger/main.py: trigger_sync ----
    main_returned,        \* value returned by the entrypoint ("nothing": still running)
    main_log,             \* message the entrypoint logged
    \* ---- okta-sync/okta_sync_utils.py: get_request ----
    g_pc,                 \* "idle", "outer", "inner", "returned", "raised"
    retries,
    delay,
    g_result,             \* "none", "response", "None", or the escaping exception
    g_requests,           \* GET requests sent by the current call
    g_slept,              \* seconds slept by the current call
    g_pre_sleep,          \* seconds slept between the previous answer and the last request
    g_post_sleep,         \* seconds slept since the last answer
    g_last_resp,          \* last answer received by the current call
    g_run429,             \* length of the run of consecutive 429 answers ending at the last answer
    g_prev_run429,        \* the same, ending at the answer before the last request
    g_transient_retries,  \* requests sent after a timeout, connection error or invalid JSON
    g_calls,              \* calls of get_request made so far
    g_prev_result,        \* result of the previous call
    g_prev_delay,         \* delay reached by the previous call
    g_prev_retries,       \* retries counted by the previous call
    \* ---- okta-sync/okta_sync_utils.py: dbt_run ----
    run_pc,               \* "off", "start", "trigger", "poll", "returned"
    run_token,            \* get_general_credentials found the token
    run_retries,          \* local retries of dbt_run
    job_run_id,           \* run_id returned by trigger_dbt_job ("None": failed)
    run_status,           \* status returned by get_dbt_run_status
    run_triggers,         \* POST .../jobs/<job_id>/run/ requests sent
    run_polls,            \* GET .../runs/<run_id>/ requests sent
    run_sleeps,           \* time.sleep(30) calls made
    run_last_step,        \* last external step: "none", "trigger", "sleep", "status"
    run_last_trigger,     \* answer to the last trigger request
    run_failed_checks,    \* consecutive status checks that failed, up to the last one
    run_outcome,          \* last message logged before returning
    \* ---- okta-sync/main.py: trigger_sync ----
    sync_pc,              \* "off", "start", "run", "done"
    sync_calls,           \* the calls made so far, in order, with how each ended
    sync_exception,       \* exception that left trigger_sync
    sync_log,             \* last message logged
    \* ---- the Fivetran connector trigger_sync talks to ----
    conn_sync,            \* who started the sync now running: "idle", "other", "own"
    conn_succeeded_at,    \* succeeded_at of the connector
    conn_failed_at,       \* failed_at of the connector
    own_sync,              \* the sync started by this call's force request:
                          \* "none", "running", "succeeded", "failed"
    \* ---- dbt-webhook: webhook_handler ----
    wh_pc,                  \* position in webhook_handler
    wh_request,             \* the request: authorization header, configured secret, body
    wh_dbt_info,            \* result of parse_dbt_webhook
    wh_response,            \* what the handler returned
    wh_publish_calls,       \* calls of publisher.publish
    wh_published,           \* messages Pub/Sub accepted
    \* ---- process-geography: main ----
    geo_pc,                 \* position in main
    geo_calls,              \* the process_geo_* functions called, in order
    geo_exception,          \* the exception main caught
    geo_failed_load,        \* the load that raised
    geo_exit_status,        \* exit status of the process
    geo_publish_calls,      \* calls of publish_pubsub_message
    geo_published,          \* messages Pub/Sub accepted
    geo_log                \* last message logged by main

dbt_vars == <<request_json, pc, wait_for_completion, run_id, run_details,
              is_complete, exit_code, returned, exception, error_details, log,
              trigger_calls, status_calls, sleeps, last_step, last_status, trigger_status>>

ft_vars == <<ft_pc, connector_exists, ft_wait, prev_success, prev_failure,
             new_success, new_failure, ft_exit_code, ft_exception,
             ft_force_calls, ft_status_calls, ft_polls, ft_sleeps, ft_last_step,
             ft_last_answer, main_returned, main_log>>

get_vars == <<g_pc, retries, delay, g_result, g_requests, g_slept, g_pre_sleep,
              g_post_sleep, g_last_resp, g_run429, g_prev_run429,
              g_transient_retries, g_calls, g_prev_result, g_prev_delay,
              g_prev_retries>>

run_vars == <<run_pc, run_token, run_retries, job_run_id, run_status,
              run_triggers, run_polls, run_sleeps, run_last_step,
              run_last_trigger, run_failed_checks, run_outcome>>

sync_vars == <<sync_pc, sync_calls, sync_exception, sync_log>>

conn_vars == <<conn_sync, conn_succeeded_at, conn_failed_at, own_sync>>

wh_vars == <<wh_pc, wh_request, wh_dbt_info, wh_response, wh_publish_calls, wh_published>>

geo_vars == <<geo_pc, geo_calls, geo_exception, geo_failed_load, geo_exit_status, geo_publish_calls, geo_published, geo_log>>

vars == <<dbt_vars, ft_vars, get_vars, run_vars, sync_vars, conn_vars, wh_vars, geo_vars>>

(***************************************************************************)
(* Bounds of the model.                                                     *)
(***************************************************************************)
MaxPolls == 3
MaxSteps == 2

(***************************************************************************)
(* dbt-trigger                                                              *)
(***************************************************************************)
EXIT_SUCCESS == 10
EXIT_FAILED == 20
EXIT_CANCELLED == 30
EXIT_RUNNING == 110

RunIds == {"run_1", "run_2"}
StepNames == <<"transform_a", "load_b", "test_c", "snapshot_d">>
StepStatuses == {10, 20}
\* status and status_message of a run, as dbt Cloud pairs them.
RunStatusInfo == {[status |-> 10, status_message |-> "None"],
                  [status |-> 20, status_message |-> "Database Error"]}

\* run_steps of a response: up to MaxSteps steps, named in the job's order.
RunSteps ==
    UNION { { [i \in 1..n |-> [name |-> StepNames[i], status |-> st[i]]] :
              st \in [1..n -> StepStatuses] } : n \in 0..MaxSteps }

\* "data" of the answer to GET runs/<id>/.
RunData(id) ==
    { [id |-> id, is_complete |-> f.is_complete, is_error |-> f.is_error,
       is_cancelled |-> f.is_cancelled, status |-> i.status,
       status_message |-> i.status_message, run_steps |-> s] :
      f \in [is_complete : BOOLEAN, is_error : BOOLEAN, is_cancelled : BOOLEAN],
      i \in RunStatusInfo, s \in RunSteps }

\* What requests.request / response.json() can produce for a status request.
StatusAnswers(id) ==
    [kind : {"ok"}, data : RunData(id)]
      \cup [kind : {"http_error"}, status_code : {401, 429, 500}]
      \cup [kind : {"exception"}]
      \cup [kind : {"no_data"}]

\* What they can produce for the trigger request ("None" : "id" is null).
TriggerAnswers ==
    [kind : {"ok"}, id : RunIds \cup {"None"}]
      \cup [kind : {"http_error"}, status_code : {401, 500}]
      \cup [kind : {"exception"}]

\* Request bodies: None, or a dict with or without the two fields.
WaitValues == {"absent", "true", "True", "false"}
Requests ==
    {[is_none |-> TRUE, has_job_id |-> FALSE, wait |-> "absent"]}
      \cup [is_none : {FALSE}, has_job_id : BOOLEAN, wait : WaitValues]

NoRun == [kind |-> "none"]
NoDetails == [run_id |-> "none", status |-> 0, status_message |-> "none",
              failed_steps |-> <<>>]

\* str.lower() on the values a request carries.
Lower(s) == IF s = "True" THEN "true" ELSE s

NoFlags == [is_complete |-> FALSE, is_error |-> FALSE, is_cancelled |-> FALSE]

Flags(d) == [is_complete |-> d.is_complete, is_error |-> d.is_error,
             is_cancelled |-> d.is_cancelled]

\* What the status request of an answer turns into for the caller of
\* DbtClient._request: the parsed body, None, or an exception.
SeenOf(a) == IF a.kind = "ok" THEN [kind |-> "ok", flags |-> Flags(a.data)]
             ELSE [kind |-> a.kind, flags |-> NoFlags]

\* Variant: is_cancelled tested before is_error.
determine_run_status_cancel_first(d) ==
    IF d.is_complete
    THEN IF d.is_cancelled THEN EXIT_CANCELLED
         ELSE IF d.is_error THEN EXIT_FAILED
         ELSE EXIT_SUCCESS
    ELSE EXIT_RUNNING

determine_run_status(d) ==
    IF d.is_complete
    THEN IF d.is_error THEN EXIT_FAILED
         ELSE IF d.is_cancelled THEN EXIT_CANCELLED
         ELSE EXIT_SUCCESS
    ELSE EXIT_RUNNING

\* [step for step in run_details["data"]["run_steps"] if step["status"] != 10]
failed_steps(d) == SelectSeq(d.run_steps, LAMBDA step : step.status # 10)

\* error_details of the failure summary.
ErrorDetails(d) ==
    [run_id |-> d.id, status |-> d.status, status_message |-> d.status_message,
     failed_steps |-> [i \in 1..Len(failed_steps(d)) |-> failed_steps(d)[i].name]]

\* Variant: a non-2xx answer is taken for an empty success.
AnswerException_http_ignored(a) ==
    CASE a.kind = "exception" -> "RequestException"
      [] a.kind = "no_data" -> "KeyError"
      [] OTHER -> "none"

\* The exception a failed answer of DbtClient._request ends in at its caller:
\* a non-2xx answer makes _request return None, which is then subscripted.
AnswerException(a) ==
    CASE a.kind = "http_error" -> "TypeError"
      [] a.kind = "exception" -> "RequestException"
      [] a.kind = "no_data" -> "KeyError"
      [] OTHER -> "none"

\* HTTP status of an answer (0: the request raised before any answer).
StatusCodeOf(a) ==
    CASE a.kind = "http_error" -> a.status_code
      [] a.kind = "exception" -> 0
      [] OTHER -> 200

\* Messages logged for a failed answer before the handler re-raises.
AnswerLog(a) ==
    IF a.kind = "exception"
    THEN {"Error in making request", "An error occurred when attempting to trigger dbt job"}
    ELSE {"An error occurred when attempting to trigger dbt job"}

\* trigger_dbt_job touches nothing of the other functions.
DbtFrame == UNCHANGED <<ft_vars, get_vars, run_vars, sync_vars, conn_vars, wh_vars, geo_vars>>

DbtInit ==
    /\ request_json \in Requests
    /\ pc = "start"
    /\ wait_for_completion = "unbound"
    /\ run_id = "none"
    /\ run_details = NoRun
    /\ is_complete = FALSE
    /\ exit_code = 0
    /\ returned = "nothing"
    /\ exception = "none"
    /\ error_details = NoDetails
    /\ log = {}
    /\ trigger_calls = 0
    /\ status_calls = 0
    /\ sleeps = 0
    /\ last_step = "none"
    /\ last_status = [kind |-> "none", flags |-> NoFlags]
    /\ trigger_status = 0

\* lines 82-102: read job_id and wait_for_completion from the request.
ParseRequest ==
    /\ DbtFrame
    /\ pc = "start"
    /\ IF ~request_json.is_none /\ request_json.has_job_id
       THEN /\ wait_for_completion' =
                 IF request_json.wait # "absent"
                 THEN (IF Lower(request_json.wait) = "true" THEN "true" ELSE "false")
                 ELSE "unbound"
            /\ pc' = "trigger"
            /\ UNCHANGED <<log, exception>>
       ELSE /\ log' = log \cup {"Failed to retrieve job_id"}
            /\ exception' = "RuntimeError"
            /\ pc' = "done"
            /\ UNCHANGED wait_for_completion
    /\ UNCHANGED <<request_json, run_id, run_details, is_complete, exit_code,
                   returned, error_details, trigger_calls, status_calls, sleeps,
                   last_step, last_status, trigger_status>>

\* lines 106-117 and 154: trigger the job, then return or enter the wait loop.
TriggerJob ==
    /\ DbtFrame
    /\ pc = "trigger"
    /\ \E a \in TriggerAnswers :
         /\ trigger_calls' = trigger_calls + 1
         /\ trigger_status' = StatusCodeOf(a)
         /\ last_step' = "trigger"
         /\ IF a.kind # "ok"
            THEN /\ exception' = AnswerException(a)
                 /\ log' = log \cup {"Triggering dbt job"} \cup AnswerLog(a)
                 /\ pc' = "done"
                 /\ UNCHANGED <<run_id, returned, exit_code, is_complete>>
            ELSE IF a.id = "None"
            THEN /\ log' = log \cup {"Triggering dbt job", "dbt run failed to start."}
                 /\ returned' = "None"
                 /\ run_id' = "None"
                 /\ pc' = "done"
                 /\ UNCHANGED <<exception, exit_code, is_complete>>
            ELSE /\ run_id' = a.id
                 /\ CASE wait_for_completion = "unbound" ->
                           /\ log' = log \cup {"Triggering dbt job", "DBT run started successfully.",
                                               "An error occurred when attempting to trigger dbt job"}
                           /\ exception' = "UnboundLocalError"
                           /\ pc' = "done"
                           /\ UNCHANGED <<returned, exit_code, is_complete>>
                      [] wait_for_completion = "false" ->
                           /\ log' = log \cup {"Triggering dbt job", "DBT run started successfully."}
                           /\ returned' = "Trigger dbt job completed, 200"
                           /\ pc' = "done"
                           /\ UNCHANGED <<exception, exit_code, is_complete>>
                      [] OTHER ->
                           /\ log' = log \cup {"Triggering dbt job", "DBT run started successfully.",
                                               "Checking run details"}
                           /\ is_complete' = FALSE
                           /\ exit_code' = EXIT_RUNNING
                           /\ pc' = "poll"
                           /\ UNCHANGED <<returned, exception>>
    /\ UNCHANGED <<request_json, wait_for_completion, run_details, error_details,
                   status_calls, sleeps, last_status>>

\* lines 118-126: one pass of the wait loop up to the branch on is_complete.
PollRunDetails ==
    /\ DbtFrame
    /\ pc = "poll"
    /\ status_calls < MaxPolls
    /\ \E a \in StatusAnswers(run_id) :
         /\ status_calls' = status_calls + 1
         /\ last_status' = SeenOf(a)
         /\ IF a.kind # "ok"
            THEN /\ exception' = AnswerException(a)
                 /\ log' = log \cup AnswerLog(a)
                 /\ pc' = "done"
                 /\ last_step' = "status"
                 /\ UNCHANGED <<run_details, is_complete, sleeps>>
            ELSE /\ run_details' = a
                 /\ is_complete' = a.data.is_complete
                 /\ IF ~a.data.is_complete
                    THEN /\ log' = log \cup {"The run is not yet completed. Waiting for 30 seconds..."}
                         /\ sleeps' = sleeps + 1
                         /\ last_step' = "sleep"
                         /\ pc' = "poll"
                    ELSE /\ pc' = "determine"
                         /\ last_step' = "status"
                         /\ UNCHANGED <<log, sleeps>>
                 /\ UNCHANGED exception
    /\ UNCHANGED <<request_json, wait_for_completion, run_id, exit_code, returned,
                   error_details, trigger_calls, trigger_status>>

\* lines 127-154: classify the completed run and report it.
DetermineRunStatus ==
    /\ DbtFrame
    /\ pc = "determine"
    /\ \E a \in StatusAnswers(run_id) :
         /\ status_calls' = status_calls + 1
         /\ last_status' = SeenOf(a)
         /\ last_step' = "status"
         /\ pc' = "done"
         /\ IF a.kind # "ok"
            THEN /\ exception' = AnswerException(a)
                 /\ log' = log \cup AnswerLog(a)
                 /\ UNCHANGED <<exit_code, error_details, returned>>
            ELSE /\ exit_code' = determine_run_status(a.data)
                 /\ IF determine_run_status(a.data) # EXIT_SUCCESS
                    THEN /\ error_details' = ErrorDetails(run_details.data)
                         /\ exception' = "RuntimeError"
                         /\ log' = log \cup {"An error occurred when attempting to trigger dbt job"}
                         /\ UNCHANGED returned
                    ELSE /\ returned' = "Trigger dbt job completed, 200"
                         /\ log' = log \cup {"The run was successful"}
                         /\ UNCHANGED <<exception, error_details>>
    /\ UNCHANGED <<request_json, wait_for_completion, run_id, run_details,
                   is_complete, trigger_calls, sleeps, trigger_status>>

DbtNext == ParseRequest \/ TriggerJob \/ PollRunDetails \/ DetermineRunStatus


(***************************************************************************)
(* fivetran-trigger: FivetranClient                                         *)
(***************************************************************************)
MaxTime == 2

EXIT_CODE_INVALID_CREDENTIALS == 200
EXIT_CODE_BAD_REQUEST == 201
EXIT_CODE_SYNC_REFRESH_ERROR == 202
EXIT_CODE_SYNC_INVALID_SOURCE_ID == 204
EXIT_CODE_UNKNOWN_ERROR == 249

\* succeeded_at / failed_at: 0 is None, a positive number is a timestamp.
Timestamps == 0..MaxTime

\* The answer of a connector that does not exist.
NotFoundAnswer == [kind |-> "http_error", status_code |-> 404,
                   code |-> "NotFound_Integration", json |-> TRUE]

HttpErrorAnswers ==
    [kind : {"http_error"}, status_code : {400, 401, 404, 429, 500},
     code : {"NotFound_Integration", "Other"}, json : BOOLEAN]

\* What requests.request can produce for GET connectors/<id>.
DetailAnswers(exists) ==
    IF exists
    THEN [kind : {"ok"}, succeeded_at : Timestamps, failed_at : Timestamps]
           \cup HttpErrorAnswers \cup {[kind |-> "timeout"], [kind |-> "ok_not_json"]}
    ELSE {NotFoundAnswer}

\* What it can produce for POST connectors/<id>/force.
ForceAnswers(exists) ==
    IF exists
    THEN {[kind |-> "ok"], [kind |-> "timeout"], [kind |-> "ok_not_json"]}
           \cup HttpErrorAnswers
    ELSE {NotFoundAnswer}

\* No request has been answered yet.
NoAnswer == [kind |-> "none"]

Raised(cls, code) == [exception |-> cls, exit_code |-> code]
NotRaised == Raised("none", 0)

\* Variant: the NotFound_Integration branch is missing.
RequestRaises_no_not_found(a) ==
    CASE a.kind = "ok" -> {NotRaised}
      [] a.kind = "timeout" -> {Raised("AttributeError", 0)}
      [] a.kind = "ok_not_json" ->
             {Raised("AttributeError", 0), Raised("JSONDecodeError", 0)}
      [] OTHER ->
             IF a.status_code = 401
             THEN IF a.json THEN {Raised("ExitCodeException", EXIT_CODE_INVALID_CREDENTIALS)}
                  ELSE {Raised("JSONDecodeError", 0)}
             ELSE IF ~a.json THEN {Raised("JSONDecodeError", 0)}
             ELSE IF a.status_code = 400
             THEN {Raised("ExitCodeException", EXIT_CODE_BAD_REQUEST)}
             ELSE {Raised("ExitCodeException", EXIT_CODE_UNKNOWN_ERROR)}

\* FivetranClient._request: what a call raises for an answer.  An answer without
\* a response object (timeout, connection error) has e.response None, and an
\* error body that is not JSON fails in e.response.json().
RequestRaises(a) ==
    CASE a.kind = "ok" -> {NotRaised}
      [] a.kind = "timeout" -> {Raised("AttributeError", 0)}
      [] a.kind = "ok_not_json" ->
             {Raised("AttributeError", 0), Raised("JSONDecodeError", 0)}
      [] OTHER ->
             IF a.status_code = 401
             THEN IF a.json THEN {Raised("ExitCodeException", EXIT_CODE_INVALID_CREDENTIALS)}
                  ELSE {Raised("JSONDecodeError", 0)}
             ELSE IF ~a.json THEN {Raised("JSONDecodeError", 0)}
             ELSE IF a.code = "NotFound_Integration"
             THEN {Raised("ExitCodeException", EXIT_CODE_SYNC_INVALID_SOURCE_ID)}
             ELSE IF a.status_code = 400
             THEN {Raised("ExitCodeException", EXIT_CODE_BAD_REQUEST)}
             ELSE {Raised("ExitCodeException", EXIT_CODE_UNKNOWN_ERROR)}

\* while prev_success == new_success and prev_failure == new_failure
StillWaiting(ps, pf, ns, nf) == ps = ns /\ pf = nf

\* Variant: only a first failure counts.
NewFailure_first_only(pf, nf) == pf = 0 /\ nf # 0

\* (prev_failure and new_failure != prev_failure) or (not prev_failure and new_failure)
NewFailure(pf, nf) == (pf # 0 /\ nf # pf) \/ (pf = 0 /\ nf # 0)

\* The outcome of one pass of the wait loop for the timestamps read: poll
\* again, or leave the loop with or without a new failure.
SyncOutcome(ps, pf, ns, nf) ==
    IF StillWaiting(ps, pf, ns, nf) THEN "poll"
    ELSE IF NewFailure(pf, nf) THEN "failure"
    ELSE "success"

FtFrame == UNCHANGED <<dbt_vars, get_vars, run_vars, sync_vars, conn_vars, wh_vars, geo_vars>>

FtInit ==
    /\ ft_pc = "start"
    /\ connector_exists \in BOOLEAN
    /\ ft_wait \in BOOLEAN
    /\ prev_success = 0
    /\ prev_failure = 0
    /\ new_success = 0
    /\ new_failure = 0
    /\ ft_exit_code = 0
    /\ ft_exception = "none"
    /\ ft_force_calls = 0
    /\ ft_status_calls = 0
    /\ ft_polls = 0
    /\ ft_sleeps = 0
    /\ ft_last_step = "none"
    /\ ft_last_answer = NoAnswer
    /\ main_returned = "nothing"
    /\ main_log = "none"

\* lines 121-130: read the last success and failure before triggering.
ReadBaseline ==
    /\ FtFrame
    /\ ft_pc = "start"
    /\ ft_wait
    /\ \E a \in DetailAnswers(connector_exists) : \E r \in RequestRaises(a) :
         /\ ft_status_calls' = ft_status_calls + 1
         /\ ft_last_step' = "status"
         /\ ft_last_answer' = a
         /\ IF r = NotRaised
            THEN /\ prev_success' = a.succeeded_at
                 /\ prev_failure' = a.failed_at
                 /\ ft_pc' = "trigger"
                 /\ UNCHANGED <<ft_exception, ft_exit_code>>
            ELSE /\ ft_exception' = r.exception
                 /\ ft_exit_code' = r.exit_code
                 /\ ft_pc' = "done"
                 /\ UNCHANGED <<prev_success, prev_failure>>
    /\ UNCHANGED <<connector_exists, ft_wait, new_success, new_failure,
                   ft_force_calls, ft_polls, ft_sleeps, main_returned, main_log>>

\* lines 132-144: send the force request.
ForceSync ==
    /\ FtFrame
    /\ \/ ft_pc = "trigger"
       \/ ft_pc = "start" /\ ~ft_wait
    /\ \E a \in ForceAnswers(connector_exists) : \E r \in RequestRaises(a) :
         /\ ft_force_calls' = ft_force_calls + 1
         /\ ft_last_step' = "trigger"
         /\ ft_last_answer' = a
         /\ IF r = NotRaised
            THEN /\ ft_pc' = IF ft_wait THEN "wait" ELSE "done"
                 /\ new_success' = IF ft_wait THEN prev_success ELSE new_success
                 /\ new_failure' = IF ft_wait THEN prev_failure ELSE new_failure
                 /\ UNCHANGED <<ft_exception, ft_exit_code>>
            ELSE /\ ft_exception' = r.exception
                 /\ ft_exit_code' = r.exit_code
                 /\ ft_pc' = "done"
                 /\ UNCHANGED <<new_success, new_failure>>
    /\ UNCHANGED <<connector_exists, ft_wait, prev_success, prev_failure,
                   ft_status_calls, ft_polls, ft_sleeps, main_returned, main_log>>

\* lines 145-163: one pass of the wait loop, and the check that follows the loop.
PollSync ==
    /\ FtFrame
    /\ ft_pc = "wait"
    /\ StillWaiting(prev_success, prev_failure, new_success, new_failure)
    /\ ft_polls < MaxPolls
    /\ \E a \in DetailAnswers(connector_exists) : \E r \in RequestRaises(a) :
         /\ ft_sleeps' = ft_sleeps + 1
         /\ ft_status_calls' = ft_status_calls + 1
         /\ ft_polls' = ft_polls + 1
         /\ ft_last_step' = "status"
         /\ ft_last_answer' = a
         /\ IF r = NotRaised
            THEN /\ new_success' = a.succeeded_at
                 /\ new_failure' = a.failed_at
                 /\ IF StillWaiting(prev_success, prev_failure, a.succeeded_at, a.failed_at)
                    THEN /\ ft_pc' = "wait"
                         /\ UNCHANGED <<ft_exception, ft_exit_code>>
                    ELSE /\ ft_pc' = "done"
                         /\ IF NewFailure(prev_failure, a.failed_at)
                            THEN /\ ft_exception' = "ExitCodeException"
                                 /\ ft_exit_code' = EXIT_CODE_SYNC_REFRESH_ERROR
                            ELSE UNCHANGED <<ft_exception, ft_exit_code>>
            ELSE /\ ft_exception' = r.exception
                 /\ ft_exit_code' = r.exit_code
                 /\ ft_pc' = "done"
                 /\ UNCHANGED <<new_success, new_failure>>
    /\ UNCHANGED <<connector_exists, ft_wait, prev_success, prev_failure,
                   ft_force_calls, main_returned, main_log>>

\* main.py lines 58-70: the entrypoint around client.trigger_sync logs the
\* outcome, catches every exception and returns None.
MainTriggerSync ==
    /\ FtFrame
    /\ ft_pc = "done"
    /\ main_returned = "nothing"
    /\ main_returned' = "None"
    /\ main_log' = IF ft_exception = "none"
                   THEN "Fivetran sync triggered and completed successfully"
                   ELSE "Error triggering Fivetran sync"
    /\ UNCHANGED <<ft_pc, connector_exists, ft_wait, prev_success, prev_failure,
                   new_success, new_failure, ft_exit_code, ft_exception,
                   ft_force_calls, ft_status_calls, ft_polls, ft_sleeps,
                   ft_last_step, ft_last_answer>>

FtNext == ReadBaseline \/ ForceSync \/ PollSync \/ MainTriggerSync


(***************************************************************************)
(* okta-sync: get_request                                                   *)
(***************************************************************************)
MaxRequests == 7
MaxCalls == 2

max_retries == 5
BASE_DELAY == 1
SLEEP_INVALID_JSON == 300
SLEEP_HTTP_ERROR == 180
SLEEP_TIMEOUT == 60
SLEEP_CONNECTION_ERROR == 60
SLEEP_REQUEST_EXCEPTION == 300

\* What requests.get / raise_for_status / r.json() can produce.
GetAnswers == {"ok_json", "ok_bad_json", "429", "http_error", "timeout",
               "connection_error", "request_exception"}

\* Answers that raise a RequestException which is not an HTTPError.
NetworkFailures == {"timeout", "connection_error", "request_exception"}

\* Transient failures other than rate limiting and HTTP error statuses.
TransientFailures == NetworkFailures \cup {"ok_bad_json"}

\* The exception class of such an answer.
ExceptionOf(a) ==
    CASE a = "timeout" -> "Timeout"
      [] a = "connection_error" -> "ConnectionError"
      [] OTHER -> "RequestException"

\* time.sleep of the outer loop's handler of an answer.
OuterSleep(a) ==
    CASE a = "ok_bad_json" -> SLEEP_INVALID_JSON
      [] a = "http_error" -> SLEEP_HTTP_ERROR
      [] a = "timeout" -> SLEEP_TIMEOUT
      [] a = "connection_error" -> SLEEP_CONNECTION_ERROR
      [] OTHER -> SLEEP_REQUEST_EXCEPTION

\* Variant: the counter of the previous call is carried over.
InitialRetries_kept == retries

\* retries = 0
InitialRetries == 0

\* Variant: one pass too many.
LoopContinues_off_by_one(r) == r <= max_retries + 1

\* while retries <= max_retries
LoopContinues(r) == r <= max_retries

\* retries += 1 after an invalid JSON body inside the 429 loop
InnerJsonRetries(r) == r + 1

\* delay = 1 on the 429 that opens the backoff loop
FirstDelay(d) == BASE_DELAY

\* delay *= 2
NextDelay(d) == d * 2

\* Requests sent so far after a failure of the classes bounded by max_retries.
TransientRetries ==
    g_transient_retries + (IF g_last_resp \in TransientFailures THEN 1 ELSE 0)

Run429(a) == IF a = "429" THEN g_run429 + 1 ELSE 0

GetFrame == UNCHANGED <<dbt_vars, ft_vars, run_vars, sync_vars, conn_vars, wh_vars, geo_vars>>

GetOff ==
    /\ g_pc = "idle"
    /\ retries = 0
    /\ delay = 0
    /\ g_result = "none"
    /\ g_requests = 0
    /\ g_slept = 0
    /\ g_pre_sleep = 0
    /\ g_post_sleep = 0
    /\ g_last_resp = "none"
    /\ g_run429 = 0
    /\ g_prev_run429 = 0
    /\ g_transient_retries = 0
    /\ g_calls = 0
    /\ g_prev_result = "none"
    /\ g_prev_delay = 0
    /\ g_prev_retries = 0

GetInit == GetOff

\* lines 110-112: a call of get_request starts (the previous one has ended).
GetRequestStart ==
    /\ GetFrame
    /\ g_pc \in {"idle", "returned", "raised"}
    /\ g_calls < MaxCalls
    /\ g_calls' = g_calls + 1
    /\ g_prev_result' = g_result
    /\ g_prev_delay' = delay
    /\ g_prev_retries' = retries
    /\ retries' = InitialRetries
    /\ delay' = 0
    /\ g_result' = "none"
    /\ g_requests' = 0
    /\ g_slept' = 0
    /\ g_pre_sleep' = 0
    /\ g_post_sleep' = 0
    /\ g_last_resp' = "none"
    /\ g_run429' = 0
    /\ g_prev_run429' = 0
    /\ g_transient_retries' = 0
    /\ g_pc' = "outer"

\* The end of one pass of the outer loop: test the loop condition again.
AfterOuterPass(r) ==
    IF LoopContinues(r)
    THEN g_pc' = "outer" /\ g_result' = g_result
    ELSE g_pc' = "returned" /\ g_result' = "None"

\* lines 112-125 and 160-181: one attempt of the outer loop.
OuterAttempt ==
    /\ GetFrame
    /\ g_pc = "outer"
    /\ g_requests < MaxRequests
    /\ \E a \in GetAnswers :
         /\ g_requests' = g_requests + 1
         /\ g_last_resp' = a
         /\ g_run429' = Run429(a)
         /\ g_prev_run429' = g_run429
         /\ g_transient_retries' = TransientRetries
         /\ g_pre_sleep' = g_post_sleep
         /\ CASE a = "ok_json" ->
                   /\ g_pc' = "returned"
                   /\ g_result' = "response"
                   /\ g_post_sleep' = 0
                   /\ UNCHANGED <<retries, delay, g_slept>>
              [] a = "429" ->
                   /\ delay' = FirstDelay(delay)
                   /\ g_pc' = "inner"
                   /\ g_post_sleep' = 0
                   /\ UNCHANGED <<retries, g_result, g_slept>>
              [] OTHER ->
                   /\ retries' = retries + 1
                   /\ g_slept' = g_slept + OuterSleep(a)
                   /\ g_post_sleep' = OuterSleep(a)
                   /\ AfterOuterPass(retries + 1)
                   /\ UNCHANGED delay
    /\ UNCHANGED <<g_calls, g_prev_result, g_prev_delay, g_prev_retries>>

\* lines 130-159: one attempt of the 429 backoff loop, after its sleep.
InnerAttempt ==
    /\ GetFrame
    /\ g_pc = "inner"
    /\ g_requests < MaxRequests
    /\ \E a \in GetAnswers :
         /\ g_requests' = g_requests + 1
         /\ g_last_resp' = a
         /\ g_run429' = Run429(a)
         /\ g_prev_run429' = g_run429
         /\ g_transient_retries' = TransientRetries
         /\ g_pre_sleep' = delay
         /\ CASE a = "ok_json" ->
                   /\ g_pc' = "returned"
                   /\ g_result' = "response"
                   /\ g_slept' = g_slept + delay
                   /\ g_post_sleep' = 0
                   /\ UNCHANGED <<retries, delay>>
              [] a = "ok_bad_json" ->
                   /\ retries' = InnerJsonRetries(retries)
                   /\ g_slept' = g_slept + delay + SLEEP_INVALID_JSON
                   /\ g_post_sleep' = SLEEP_INVALID_JSON
                   /\ AfterOuterPass(InnerJsonRetries(retries))
                   /\ UNCHANGED delay
              [] a \in {"429", "http_error"} ->
                   /\ delay' = NextDelay(delay)
                   /\ g_slept' = g_slept + delay
                   /\ g_post_sleep' = 0
                   /\ UNCHANGED <<retries, g_pc, g_result>>
              [] OTHER ->
                   /\ g_pc' = "raised"
                   /\ g_result' = ExceptionOf(a)
                   /\ g_slept' = g_slept + delay
                   /\ g_post_sleep' = 0
                   /\ UNCHANGED <<retries, delay>>
    /\ UNCHANGED <<g_calls, g_prev_result, g_prev_delay, g_prev_retries>>

GetNext == GetRequestStart \/ OuterAttempt \/ InnerAttempt

(***************************************************************************)
(* okta-sync: dbt_run on top of trigger_dbt_job and get_dbt_run_status      *)
(***************************************************************************)
MaxRunPolls == 5

dbt_run_max_retries == 3

\* What requests.post / raise_for_status / r.json()["data"]["id"] can produce.
RunTriggerAnswers ==
    [kind : {"ok"}, id : {"run_1", "None"}]
      \cup [kind : {"http_error"}, status_code : {400, 401, 404, 500}]
      \cup {[kind |-> "timeout"], [kind |-> "connection_error"], [kind |-> "bad_json"]}

\* Statuses dbt Cloud reports: 1 queued, 3 running, 10 success, 20 failed,
\* 30 cancelled.
RunStatuses == {1, 3, 10, 20, 30}

\* What requests.get / raise_for_status / r.json()["data"]["status"] can produce.
RunStatusAnswers ==
    [kind : {"ok"}, status : RunStatuses]
      \cup [kind : {"http_error"}, status_code : {401, 429, 500}]
      \cup {[kind |-> "timeout"], [kind |-> "connection_error"], [kind |-> "bad_json"]}

\* trigger_dbt_job: the run id, or None after any exception.
trigger_dbt_job(a) == IF a.kind = "ok" THEN a.id ELSE "None"

\* get_dbt_run_status: the status, or 0 after any exception.
get_dbt_run_status(a) == IF a.kind = "ok" THEN a.status ELSE 0

\* Variant: one pass too many.
RunLoopContinues_off_by_one(r) == r <= dbt_run_max_retries + 1

\* while retries <= max_retries
RunLoopContinues(r) == r <= dbt_run_max_retries

\* if retries < max_retries
RetriesRemain(r) == r < dbt_run_max_retries

RunFrame == UNCHANGED <<dbt_vars, ft_vars, get_vars, sync_vars, conn_vars, wh_vars, geo_vars>>

RunOff ==
    /\ run_pc = "off"
    /\ run_token = TRUE
    /\ run_retries = 0
    /\ job_run_id = "none"
    /\ run_status = 0
    /\ run_triggers = 0
    /\ run_polls = 0
    /\ run_sleeps = 0
    /\ run_last_step = "none"
    /\ run_last_trigger = NoAnswer
    /\ run_failed_checks = 0
    /\ run_outcome = "none"

RunInit ==
    /\ run_pc = "start"
    /\ run_token \in BOOLEAN
    /\ run_retries = 0
    /\ job_run_id = "none"
    /\ run_status = 0
    /\ run_triggers = 0
    /\ run_polls = 0
    /\ run_sleeps = 0
    /\ run_last_step = "none"
    /\ run_last_trigger = NoAnswer
    /\ run_failed_checks = 0
    /\ run_outcome = "none"

\* lines 551-559: read the token, set retries = 0 and enter the loop.
DbtRunStart ==
    /\ RunFrame
    /\ run_pc = "start"
    /\ IF run_token
       THEN run_pc' = "trigger" /\ run_outcome' = "Starting dbt job..."
       ELSE run_pc' = "returned" /\ run_outcome' = "Failed to get dbt token"
    /\ run_retries' = 0
    /\ UNCHANGED <<run_token, job_run_id, run_status, run_triggers, run_polls,
                   run_sleeps, run_last_step, run_last_trigger, run_failed_checks>>

\* The end of one pass of the outer loop: test the loop condition again.
AfterRunPass(r) ==
    IF RunLoopContinues(r)
    THEN run_pc' = "trigger"
    ELSE run_pc' = "returned"

\* lines 559-566 and 597-599: trigger the job; a failed trigger counts a retry.
DbtRunTrigger ==
    /\ RunFrame
    /\ run_pc = "trigger"
    /\ \E a \in RunTriggerAnswers :
         /\ run_triggers' = run_triggers + 1
         /\ run_last_step' = "trigger"
         /\ run_last_trigger' = a
         /\ job_run_id' = trigger_dbt_job(a)
         /\ IF trigger_dbt_job(a) = "None"
            THEN /\ run_retries' = run_retries + 1
                 /\ AfterRunPass(run_retries + 1)
                 /\ run_outcome' = IF RunLoopContinues(run_retries + 1)
                                   THEN "dbt run failed to start."
                                   ELSE "dbt job failed to complete successfully"
            ELSE /\ run_pc' = "poll"
                 /\ run_outcome' = "dbt job started successfully."
                 /\ UNCHANGED run_retries
    /\ UNCHANGED <<run_token, run_status, run_polls, run_sleeps, run_failed_checks>>

\* lines 568-595: one pass of the inner loop: sleep 30 s, read the status, branch.
DbtRunPoll ==
    /\ RunFrame
    /\ run_pc = "poll"
    /\ run_polls < MaxRunPolls
    /\ \E a \in RunStatusAnswers :
         /\ run_sleeps' = run_sleeps + 1
         /\ run_polls' = run_polls + 1
         /\ run_last_step' = "status"
         /\ run_status' = get_dbt_run_status(a)
         /\ run_failed_checks' = IF a.kind = "ok" THEN 0 ELSE run_failed_checks + 1
         /\ CASE get_dbt_run_status(a) = 10 ->
                   /\ run_pc' = "returned"
                   /\ run_outcome' = "dbt job run completed successfully."
                   /\ UNCHANGED run_retries
              [] get_dbt_run_status(a) \in {20, 30} ->
                   IF RetriesRemain(run_retries)
                   THEN /\ run_retries' = run_retries + 1
                        /\ AfterRunPass(run_retries + 1)
                        /\ run_outcome' = "Retrying..."
                   ELSE /\ run_pc' = "returned"
                        /\ run_outcome' = "dbt job failed after max retries"
                        /\ UNCHANGED run_retries
              [] OTHER ->
                   /\ run_pc' = "poll"
                   /\ run_outcome' = "dbt job status"
                   /\ UNCHANGED run_retries
    /\ UNCHANGED <<run_token, job_run_id, run_triggers, run_last_trigger>>

DbtRunNext == DbtRunStart \/ DbtRunTrigger \/ DbtRunPoll

(***************************************************************************)
(* okta-sync: main.trigger_sync                                             *)
(***************************************************************************)
\* The calls in the try block of trigger_sync, in program order.
SyncSteps ==
    << [fn |-> "sync_data", arg |-> "apps"],
       [fn |-> "sync_data", arg |-> "users"],
       [fn |-> "sync_data", arg |-> "groups"],
       [fn |-> "sync_all_users", arg |-> "group_members"],
       [fn |-> "sync_all_users", arg |-> "app_users"],
       [fn |-> "replace_dataset_bigquery", arg |-> "none"] >>

\* How a call can end: the ways the callee returns, or "raised".
CallOutcomes(fn) ==
    CASE fn = "sync_data" -> {"uploaded", "csv_only", "upload_failed", "raised"}
      [] fn = "sync_all_users" ->
             {"uploaded", "no_schema", "no_everyone_ids", "raised"}
      [] OTHER -> {"done", "raised"}

\* Variant: the exception of a call is logged and the next call is made.
SyncPcAfter_swallow(o, n) ==
    IF n = Len(SyncSteps) THEN "done" ELSE "run"

\* Where trigger_sync stands after its n-th call ended with outcome o: an
\* exception leaves the try block (line 743), the last call ends it.
SyncPcAfter(o, n) ==
    IF o = "raised" \/ n = Len(SyncSteps) THEN "done" ELSE "run"

SyncFrame == UNCHANGED <<dbt_vars, ft_vars, get_vars, run_vars, conn_vars, wh_vars, geo_vars>>

SyncOff ==
    /\ sync_pc = "off"
    /\ sync_calls = <<>>
    /\ sync_exception = "none"
    /\ sync_log = "none"

SyncInit ==
    /\ sync_pc = "start"
    /\ sync_calls = <<>>
    /\ sync_exception = "none"
    /\ sync_log = "none"

\* lines 730-733: log the start and enter the try block.
OktaTriggerSyncStart ==
    /\ SyncFrame
    /\ sync_pc = "start"
    /\ sync_pc' = "run"
    /\ sync_log' = "Starting Okta data synchronization job"
    /\ UNCHANGED <<sync_calls, sync_exception>>

\* lines 734-745: the next call of the try block; an exception is logged and
\* re-raised, and after the last call the completion is logged.
OktaTriggerSyncStep ==
    /\ SyncFrame
    /\ sync_pc = "run"
    /\ Len(sync_calls) < Len(SyncSteps)
    /\ LET step == SyncSteps[Len(sync_calls) + 1] IN
       \E o \in CallOutcomes(step.fn) :
         /\ sync_calls' = Append(sync_calls,
                                 [fn |-> step.fn, arg |-> step.arg, outcome |-> o])
         /\ sync_pc' = SyncPcAfter(o, Len(sync_calls) + 1)
         /\ IF o = "raised"
            THEN /\ sync_exception' = "Exception"
                 /\ sync_log' = "Okta sync job failed"
            ELSE IF Len(sync_calls) + 1 = Len(SyncSteps)
            THEN /\ sync_log' = "Okta data synchronization job completed successfully"
                 /\ UNCHANGED sync_exception
            ELSE UNCHANGED <<sync_exception, sync_log>>

OktaSyncNext == OktaTriggerSyncStart \/ OktaTriggerSyncStep

(***************************************************************************)
(* FivetranClient.trigger_sync against a connector other syncs run on       *)
(***************************************************************************)
\* The connector changes; trigger_sync and the other functions stand still.
ConnFrame == UNCHANGED <<dbt_vars, ft_vars, get_vars, run_vars, sync_vars, wh_vars, geo_vars>>

ConnOff ==
    /\ conn_sync = "idle"
    /\ conn_succeeded_at = 0
    /\ conn_failed_at = 0
    /\ own_sync = "none"

\* A sync of somebody else may be in flight when trigger_sync is called.
ConnInit ==
    /\ conn_sync \in {"idle", "other"}
    /\ conn_succeeded_at = 0
    /\ conn_failed_at = 0
    /\ own_sync = "none"

\* The timestamp of the next sync to end.
NextTimestamp ==
    1 + (IF conn_succeeded_at > conn_failed_at THEN conn_succeeded_at
         ELSE conn_failed_at)

\* The answer GET connectors/<id> gives for the connector as it is.
ConnectorAnswer ==
    [kind |-> "ok", succeeded_at |-> conn_succeeded_at, failed_at |-> conn_failed_at]

\* A scheduled sync, or the sync of another caller's trigger, starts.
ConnSyncStarts ==
    /\ ConnFrame
    /\ ft_pc # "done"
    /\ conn_sync = "idle"
    /\ conn_sync' = "other"
    /\ UNCHANGED <<conn_succeeded_at, conn_failed_at, own_sync>>

\* The force request of this call (payload force: true) was accepted: its sync
\* starts and takes the place of a sync that was running.
ConnOwnSyncStarts ==
    /\ ConnFrame
    /\ ft_pc = "wait"
    /\ own_sync = "none"
    /\ conn_sync' = "own"
    /\ own_sync' = "running"
    /\ UNCHANGED <<conn_succeeded_at, conn_failed_at>>

\* The running sync ends, with success or with failure.
ConnSyncEnds ==
    /\ ConnFrame
    /\ ft_pc # "done"
    /\ conn_sync # "idle"
    /\ NextTimestamp <= MaxTime
    /\ \E ok \in BOOLEAN :
         /\ conn_succeeded_at' = IF ok THEN NextTimestamp ELSE conn_succeeded_at
         /\ conn_failed_at' = IF ok THEN conn_failed_at ELSE NextTimestamp
         /\ own_sync' = IF conn_sync = "own"
                         THEN (IF ok THEN "succeeded" ELSE "failed")
                         ELSE own_sync
    /\ conn_sync' = "idle"

\* trigger_sync's requests, answered by the connector as it is.
RaceReadBaseline == ReadBaseline /\ ft_last_answer' = ConnectorAnswer

RaceForceSync == ForceSync /\ ft_last_answer' = [kind |-> "ok"]

RacePollSync ==
    /\ own_sync # "none"
    /\ PollSync
    /\ ft_last_answer' = ConnectorAnswer

RaceNext ==
    \/ RaceReadBaseline \/ RaceForceSync \/ RacePollSync
    \/ ConnSyncStarts \/ ConnOwnSyncStarts \/ ConnSyncEnds

\* trigger_sync(connector_id, wait_for_completion=True) on an existing connector.
RaceInit == FtInit /\ connector_exists /\ ft_wait /\ ConnInit

(***************************************************************************)
(* dbt-webhook: webhook_handler and webhook_utils                           *)
(***************************************************************************)
\* The authorization header: absent, empty, a Bearer token, the hex HMAC of the
\* body under the configured secret, or any other text.
Headers == {"absent", "empty", "bearer", "hmac_of_body", "other"}

\* DBT_WEBHOOK_SECRET of the environment: set, or None.
Secrets == {"set", "None"}

\* A JSON value of the payload with its Python type and its str() text.
AbsentValue == [type |-> "absent", text |-> ""]

JobIdValues ==
    {[type |-> "int", text |-> "23366"], [type |-> "str", text |-> "23366"],
     [type |-> "int", text |-> "99"], AbsentValue}

RunStatusValues ==
    {[type |-> "str", text |-> "Success"], [type |-> "str", text |-> "Error"],
     AbsentValue}

RunStatusCodeValues ==
    {[type |-> "int", text |-> "10"], [type |-> "float", text |-> "10.0"],
     [type |-> "str", text |-> "10"], [type |-> "int", text |-> "20"],
     AbsentValue}

EventTypes ==
    {[type |-> "str", text |-> "job.run.completed"],
     [type |-> "str", text |-> "job.run.started"], AbsentValue}

\* The "data" member of the payload: an object, null, or absent.
NoFields == [jobId |-> AbsentValue, runStatus |-> AbsentValue,
             runStatusCode |-> AbsentValue]

DataValues ==
    { [kind |-> "object", fields |-> f] :
        f \in [jobId : JobIdValues, runStatus : RunStatusValues,
               runStatusCode : RunStatusCodeValues] }
      \cup {[kind |-> "null", fields |-> NoFields],
            [kind |-> "absent", fields |-> NoFields]}

\* Request bodies: bytes that are not UTF-8, text that is not JSON, a JSON
\* value that is not an object, or a JSON object.
NoData == [kind |-> "absent", fields |-> NoFields]

Bodies ==
    { [kind |-> "object", eventType |-> e, data |-> d] :
        e \in EventTypes, d \in DataValues }
      \cup { [kind |-> k, eventType |-> AbsentValue, data |-> NoData] :
               k \in {"not_utf8", "not_json", "json_list"} }

WebhookRequests == [authorization : Headers, secret : Secrets, body : Bodies]

\* d.get(key, "") : the value, or the empty string when the key is absent.
GetOrEmpty(v) == IF v.type = "absent" THEN [type |-> "str", text |-> ""] ELSE v

\* Python's == between a JSON value and the int 10.
Equals10(v) == v.type \in {"int", "float"} /\ v.text \in {"10", "10.0"}

\* Python's == between a JSON value and a str.
EqualsStr(v, s) == v.type = "str" /\ v.text = s

\* webhook_utils.verify_dbt_signature: a Bearer token is accepted; otherwise
\* the header must equal the HMAC of the body, and a secret of None raises
\* inside the try, which returns False.
verify_dbt_signature(signature, secret) ==
    IF signature \in {"absent", "empty"} THEN FALSE
    ELSE IF signature = "bearer" THEN TRUE
    ELSE IF secret = "None" THEN FALSE
    ELSE signature = "hmac_of_body"

\* parse_dbt_webhook returned {}.
EmptyInfo ==
    [empty |-> TRUE, event_type |-> AbsentValue, job_id |-> "",
     run_status |-> AbsentValue, run_status_code |-> AbsentValue]

\* webhook_utils.parse_dbt_webhook: the fields of a job.run.completed event;
\* {} for any other event, and for a payload or data that has no .get().
parse_dbt_webhook(payload) ==
    IF payload.kind # "object" THEN EmptyInfo
    ELSE IF ~EqualsStr(GetOrEmpty(payload.eventType), "job.run.completed")
    THEN EmptyInfo
    ELSE IF payload.data.kind = "null" THEN EmptyInfo
    ELSE [empty |-> FALSE,
          event_type |-> GetOrEmpty(payload.eventType),
          job_id |-> GetOrEmpty(payload.data.fields.jobId).text,
          run_status |-> GetOrEmpty(payload.data.fields.runStatus),
          run_status_code |-> GetOrEmpty(payload.data.fields.runStatusCode)]

\* The job ids of dbt_to_fabric_mapping.
MappedJobIds == {"23366"}

\* webhook_utils.map_dbt_to_fabric returned a mapping.
map_dbt_to_fabric(dbt_job_id) == dbt_job_id \in MappedJobIds

\* Variant: the status code is compared as text, so "10" passes too.
SuccessfulRun_code_as_text(info) ==
    EqualsStr(info.run_status, "Success") \/ info.run_status_code.text = "10"

\* The run of the event is a success for the filter of lines 143-144.
SuccessfulRun(info) ==
    EqualsStr(info.run_status, "Success") \/ Equals10(info.run_status_code)

\* What a call of publisher.publish followed by future.result() can do.
PublishOutcomes == {"published", "publish_raises", "result_raises"}

Response(text, code) == [text |-> text, code |-> code]

NoResponse == Response("none", 0)

WebhookFrame ==
    UNCHANGED <<dbt_vars, ft_vars, get_vars, run_vars, sync_vars, conn_vars, geo_vars>>

WebhookOff ==
    /\ wh_pc = "off"
    /\ wh_request = [authorization |-> "absent", secret |-> "None",
                     body |-> [kind |-> "not_json", eventType |-> AbsentValue,
                               data |-> NoData]]
    /\ wh_dbt_info = EmptyInfo
    /\ wh_response = NoResponse
    /\ wh_publish_calls = 0
    /\ wh_published = 0

\* A request has arrived and webhook_handler has been entered.
WebhookInit ==
    /\ wh_pc = "signature"
    /\ wh_request \in WebhookRequests
    /\ wh_dbt_info = EmptyInfo
    /\ wh_response = NoResponse
    /\ wh_publish_calls = 0
    /\ wh_published = 0

\* The handler returns.
WebhookReturn(text, code) ==
    /\ wh_pc' = "done"
    /\ wh_response' = Response(text, code)

\* lines 113-123: the header must be present and verified.
WebhookCheckSignature ==
    /\ WebhookFrame
    /\ wh_pc = "signature"
    /\ IF wh_request.authorization \in {"absent", "empty"}
       THEN WebhookReturn("Missing signature", 400)
       ELSE IF ~verify_dbt_signature(wh_request.authorization, wh_request.secret)
       THEN WebhookReturn("Invalid signature", 403)
       ELSE /\ wh_pc' = "json"
            /\ UNCHANGED wh_response
    /\ UNCHANGED <<wh_request, wh_dbt_info, wh_publish_calls, wh_published>>

\* lines 126-131: json.loads(request_body.decode('utf-8')). A JSONDecodeError
\* is answered 400; a UnicodeDecodeError reaches the handler of lines 180-182.
WebhookLoadJson ==
    /\ WebhookFrame
    /\ wh_pc = "json"
    /\ CASE wh_request.body.kind = "not_json" ->
              WebhookReturn("Invalid JSON", 400)
         [] wh_request.body.kind = "not_utf8" ->
              WebhookReturn("Internal server error", 500)
         [] OTHER ->
              /\ wh_pc' = "parse"
              /\ UNCHANGED wh_response
    /\ UNCHANGED <<wh_request, wh_dbt_info, wh_publish_calls, wh_published>>

\* lines 134-138: parse_dbt_webhook, and the answer to an empty result.
WebhookParse ==
    /\ WebhookFrame
    /\ wh_pc = "parse"
    /\ wh_dbt_info' = parse_dbt_webhook(wh_request.body)
    /\ IF parse_dbt_webhook(wh_request.body).empty
       THEN WebhookReturn("Invalid DBT webhook payload", 400)
       ELSE /\ wh_pc' = "filter"
            /\ UNCHANGED wh_response
    /\ UNCHANGED <<wh_request, wh_publish_calls, wh_published>>

\* lines 143-152: only successful completions of a mapped job go on.
WebhookFilter ==
    /\ WebhookFrame
    /\ wh_pc = "filter"
    /\ IF \/ ~EqualsStr(wh_dbt_info.event_type, "job.run.completed")
          \/ ~SuccessfulRun(wh_dbt_info)
       THEN WebhookReturn("Event ignored - not a successful job completion", 200)
       ELSE IF ~map_dbt_to_fabric(wh_dbt_info.job_id)
       THEN WebhookReturn("Webhook processed - no Fabric job mapping configured for this DBT job", 200)
       ELSE /\ wh_pc' = "publish"
            /\ UNCHANGED wh_response
    /\ UNCHANGED <<wh_request, wh_dbt_info, wh_publish_calls, wh_published>>

\* lines 155-178: one publish; an exception of publish or of future.result()
\* is answered 500. When future.result() raises the message may have been sent.
WebhookPublish ==
    /\ WebhookFrame
    /\ wh_pc = "publish"
    /\ wh_publish_calls' = wh_publish_calls + 1
    /\ \E o \in PublishOutcomes :
         CASE o = "published" ->
                /\ wh_published' = wh_published + 1
                /\ WebhookReturn("Fabric job request published", 200)
           [] o = "publish_raises" ->
                /\ UNCHANGED wh_published
                /\ WebhookReturn("Error publishing to Pub/Sub", 500)
           [] OTHER ->
                /\ wh_published' \in {wh_published, wh_published + 1}
                /\ WebhookReturn("Error publishing to Pub/Sub", 500)
    /\ UNCHANGED <<wh_request, wh_dbt_info>>

WebhookNext ==
    \/ WebhookCheckSignature \/ WebhookLoadJson \/ WebhookParse
    \/ WebhookFilter \/ WebhookPublish

(***************************************************************************)
(* process-geography: main                                                  *)
(***************************************************************************)
\* The table loads of main, in the order of lines 769-786.
GeoLoads ==
    <<"process_geo_admin_1_codes", "process_geo_admin_2_codes",
      "process_geo_admincode_5", "process_geo_all_countries",
      "process_geo_all_countries_deleted", "process_geo_all_countries_modified",
      "process_geo_alternate_names_deleted", "process_geo_alternate_names_modified",
      "process_geo_alternate_names_v_2", "process_geo_country_info",
      "process_geo_geoip_2_city_blocks_ipv6", "process_geo_geoip_2_city_locations",
      "process_geo_geoip_2_country_blocks_ipv6", "process_geo_geoip_2_country_locations",
      "process_geo_hierarchy", "process_geo_feature_codes",
      "process_geo_iso_language_codes", "process_geo_time_zones">>

\* A load returns, or raises: the download, the archive, the CSV parse or the
\* BigQuery upload can fail; load_to_dataframe logs and re-raises.
LoadOutcomes ==
    {"returned", "HTTPError", "ConnectionError", "BadZipFile", "ParserError",
     "KeyError", "GoogleAPIError"}

\* publish_pubsub_message: the message is published; the client or publish()
\* raises before anything is sent; or future.result() raises.
GeoPublishOutcomes == {"published", "publish_raises", "result_raises"}

\* Not yet exited.
Running == -1

\* Variant: an exception of a load is swallowed and main goes on.
GeoPcAfterLoad_swallow(o, n) ==
    IF n = Len(GeoLoads) THEN "publish" ELSE "load"

\* Where main stands after the n-th load ended with outcome o: an exception
\* leaves the try block for the handler, which exits.
GeoPcAfterLoad(o, n) ==
    IF o # "returned" THEN "exited"
    ELSE IF n = Len(GeoLoads) THEN "publish" ELSE "load"

GeoFrame ==
    UNCHANGED <<dbt_vars, ft_vars, get_vars, run_vars, sync_vars, conn_vars, wh_vars>>

GeoOff ==
    /\ geo_pc = "off"
    /\ geo_calls = <<>>
    /\ geo_exception = "none"
    /\ geo_failed_load = "none"
    /\ geo_exit_status = Running
    /\ geo_publish_calls = 0
    /\ geo_published = 0
    /\ geo_log = "none"

\* main has been entered (lines 765-768).
GeoInit ==
    /\ geo_pc = "load"
    /\ geo_calls = <<>>
    /\ geo_exception = "none"
    /\ geo_failed_load = "none"
    /\ geo_exit_status = Running
    /\ geo_publish_calls = 0
    /\ geo_published = 0
    /\ geo_log = "Start processing geography data"

\* lines 769-786, 793-795: the next load is called; when it raises, the
\* handler logs the error and exits with status 1.
GeoLoad ==
    /\ GeoFrame
    /\ geo_pc = "load"
    /\ Len(geo_calls) < Len(GeoLoads)
    /\ \E o \in LoadOutcomes :
         /\ geo_calls' = Append(geo_calls, GeoLoads[Len(geo_calls) + 1])
         /\ geo_pc' = GeoPcAfterLoad(o, Len(geo_calls) + 1)
         /\ IF o = "returned"
            THEN UNCHANGED <<geo_exception, geo_failed_load, geo_exit_status, geo_log>>
            ELSE /\ geo_exception' = o
                 /\ geo_failed_load' = GeoLoads[Len(geo_calls) + 1]
                 /\ geo_exit_status' = 1
                 /\ geo_log' = "Error processing geography data"
    /\ UNCHANGED <<geo_publish_calls, geo_published>>

\* lines 787-795: the completion message is published and main returns; an
\* exception of publish_pubsub_message is handled like one of a load.
GeoPublish ==
    /\ GeoFrame
    /\ geo_pc = "publish"
    /\ geo_publish_calls' = geo_publish_calls + 1
    /\ \E o \in GeoPublishOutcomes :
         IF o = "published"
         THEN /\ geo_published' = geo_published + 1
              /\ geo_pc' = "exited"
              /\ geo_exit_status' = 0
              /\ geo_log' = "Processing geography data completed"
              /\ UNCHANGED geo_exception
         ELSE /\ geo_published' \in
                   IF o = "publish_raises" THEN {geo_published}
                   ELSE {geo_published, geo_published + 1}
              /\ geo_pc' = "exited"
              /\ geo_exception' = o
              /\ geo_exit_status' = 1
              /\ geo_log' = "Error processing geography data"
    /\ UNCHANGED <<geo_calls, geo_failed_load>>

GeoNext == GeoLoad \/ GeoPublish

(***************************************************************************)
(* Specifications: one per function, the others at rest.                    *)
(***************************************************************************)
DbtOff ==
    /\ request_json = [is_none |-> TRUE, has_job_id |-> FALSE, wait |-> "absent"]
    /\ pc = "off"
    /\ wait_for_completion = "unbound"
    /\ run_id = "none"
    /\ run_details = NoRun
    /\ is_complete = FALSE
    /\ exit_code = 0
    /\ returned = "nothing"
    /\ exception = "none"
    /\ error_details = NoDetails
    /\ log = {}
    /\ trigger_calls = 0
    /\ status_calls = 0
    /\ sleeps = 0
    /\ last_step = "none"
    /\ last_status = [kind |-> "none", flags |-> NoFlags]
    /\ trigger_status = 0

FtOff ==
    /\ ft_pc = "off"
    /\ connector_exists = TRUE
    /\ ft_wait = FALSE
    /\ prev_success = 0
    /\ prev_failure = 0
    /\ new_success = 0
    /\ new_failure = 0
    /\ ft_exit_code = 0
    /\ ft_exception = "none"
    /\ ft_force_calls = 0
    /\ ft_status_calls = 0
    /\ ft_polls = 0
    /\ ft_sleeps = 0
    /\ ft_last_step = "none"
    /\ ft_last_answer = NoAnswer
    /\ main_returned = "nothing"
    /\ main_log = "none"

InitDbt == DbtInit /\ FtOff /\ GetOff /\ RunOff /\ SyncOff /\ ConnOff /\ WebhookOff /\ GeoOff
InitFivetran == FtInit /\ DbtOff /\ GetOff /\ RunOff /\ SyncOff /\ ConnOff /\ WebhookOff /\ GeoOff
InitGet == GetInit /\ DbtOff /\ FtOff /\ RunOff /\ SyncOff /\ ConnOff /\ WebhookOff /\ GeoOff
InitDbtRun == RunInit /\ DbtOff /\ FtOff /\ GetOff /\ SyncOff /\ ConnOff /\ WebhookOff /\ GeoOff
InitOktaSync == SyncInit /\ DbtOff /\ FtOff /\ GetOff /\ RunOff /\ ConnOff /\ WebhookOff /\ GeoOff

SpecDbt == InitDbt /\ [][DbtNext]_vars

SpecFivetran == InitFivetran /\ [][FtNext]_vars

SpecGet == InitGet /\ [][GetNext]_vars

SpecDbtRun == InitDbtRun /\ [][DbtRunNext]_vars

SpecOktaSync == InitOktaSync /\ [][OktaSyncNext]_vars

InitFivetranRace == RaceInit /\ DbtOff /\ GetOff /\ RunOff /\ SyncOff /\ WebhookOff /\ GeoOff

SpecFivetranRace == InitFivetranRace /\ [][RaceNext]_vars

InitWebhook == WebhookInit /\ DbtOff /\ FtOff /\ GetOff /\ RunOff /\ SyncOff /\ ConnOff /\ GeoOff

SpecWebhook == InitWebhook /\ [][WebhookNext]_vars

InitGeo == GeoInit /\ DbtOff /\ FtOff /\ GetOff /\ RunOff /\ SyncOff /\ ConnOff /\ WebhookOff

SpecGeo == InitGeo /\ [][GeoNext]_vars


(***************************************************************************)
(* Properties of trigger_dbt_job (SpecDbt)                                  *)
(***************************************************************************)
Completed200 == "Trigger dbt job completed, 200"

WaitedRun == wait_for_completion = "true" /\ run_id \in RunIds

\* The wait loop read a completed run (the answer that ended the loop) and
\* determine_run_status has been answered too.
LoopSawComplete ==
    /\ pc = "done"
    /\ WaitedRun
    /\ run_details.kind = "ok"
    /\ run_details.data.is_complete
    /\ last_status.kind = "ok"

\* Names of the steps whose status is not 10, in the order of the answer.
RECURSIVE FailedNames(_)
FailedNames(steps) ==
    IF steps = <<>> THEN <<>>
    ELSE (IF Head(steps).status # 10 THEN <<Head(steps).name>> ELSE <<>>)
           \o FailedNames(Tail(steps))

\* C1: when the first status answer is not complete and the second is complete
\* without error (and not cancelled), the handler ends in success after exactly
\* one trigger request and exactly two status requests.
C1_TwoPollsThenSuccess ==
    (/\ LoopSawComplete
     /\ sleeps = 1
     /\ ~run_details.data.is_error
     /\ ~run_details.data.is_cancelled)
    => (/\ returned = Completed200
        /\ exception = "none"
        /\ trigger_calls = 1
        /\ status_calls = 2)

\* C2: a request with job_id and no wait_for_completion field returns the
\* success response right after a successful trigger, having logged the start
\* of the run and without any status request.
C2_NoWaitFieldReturnsAtOnce ==
    (/\ pc = "done"
     /\ ~request_json.is_none
     /\ request_json.has_job_id
     /\ request_json.wait = "absent"
     /\ trigger_status = 200
     /\ run_id \in RunIds)
    => (/\ returned = Completed200
        /\ exception = "none"
        /\ "DBT run started successfully." \in log
        /\ status_calls = 0)

\* C3: a status answer with is_complete = false, whatever its other flags, is
\* classified 110 and leaves the handler polling: it reports neither success
\* nor failure nor cancellation.
C3_IncompleteKeepsPolling ==
    /\ \A id \in RunIds : \A d \in RunData(id) :
         ~d.is_complete => determine_run_status(d) = 110
    /\ (last_status.kind = "ok" /\ ~last_status.flags.is_complete)
         => (pc = "poll" /\ returned = "nothing" /\ exception = "none")

\* C4: the exit code determine_run_status computed from a completed status is
\* 20 when is_error is set (also when is_cancelled is set too), else 30 when
\* is_cancelled is set, else 10.
C4_CompletedClassification ==
    (/\ pc = "done"
     /\ is_complete
     /\ last_status.kind = "ok"
     /\ last_status.flags.is_complete)
    => exit_code = (IF last_status.flags.is_error THEN 20
                    ELSE IF last_status.flags.is_cancelled THEN 30
                    ELSE 10)

\* A status with both flags set has been classified as failure.
C4_Witness ==
    /\ pc = "done"
    /\ is_complete
    /\ last_status.kind = "ok"
    /\ last_status.flags = [is_complete |-> TRUE, is_error |-> TRUE, is_cancelled |-> TRUE]
    /\ exit_code = 20

\* C5: when the waited-on run completes with is_error = true the handler ends
\* in failure, and the summary carries the run id, status, status message and
\* the names of exactly the steps whose status is not 10, in their order.
C5_ErrorRunEndsInFailure ==
    (LoopSawComplete /\ run_details.data.is_error)
    => (/\ exception = "RuntimeError"
        /\ returned = "nothing"
        /\ error_details = [run_id |-> run_details.data.id,
                            status |-> run_details.data.status,
                            status_message |-> run_details.data.status_message,
                            failed_steps |-> FailedNames(run_details.data.run_steps)])

TriggerRejected == pc = "done" /\ trigger_calls = 1 /\ trigger_status \in {401, 500}

C7_InvalidTargetNoStatusRequest ==
    (~connector_exists /\ ft_pc = "done")
    => (/\ ft_exception = "ExitCodeException"
        /\ ft_exit_code = 204
        /\ ft_status_calls = 0)

\* C7 as amended: it ends in exit code 204 without entering the wait loop (no
\* sleep, no poll).  Without wait_for_completion the force request is the only
\* request; with it the only request is the read of the last success and
\* failure made before the trigger, and the force request is never sent.
C7_InvalidTargetNoPoll ==
    /\ ~connector_exists => ft_pc \in {"start", "done"}
    /\ (~connector_exists /\ ft_pc = "done")
       => (/\ ft_exception = "ExitCodeException"
           /\ ft_exit_code = 204
           /\ ft_polls = 0
           /\ ft_sleeps = 0
           /\ (ft_wait => ft_status_calls = 1 /\ ft_force_calls = 0)
           /\ (~ft_wait => ft_status_calls = 0 /\ ft_force_calls = 1))

\* A waited-on trigger for a missing connector has ended.
C7_Witness ==
    /\ ~connector_exists
    /\ ft_wait
    /\ ft_pc = "done"
    /\ ft_exit_code = 204
    /\ ft_status_calls = 1

(***************************************************************************)
(* Properties of get_request (SpecGet)                                      *)
(***************************************************************************)
RECURSIVE Pow2(_)
Pow2(n) == IF n <= 0 THEN 1 ELSE 2 * Pow2(n - 1)

\* C8: the sleep before the request that follows the k-th consecutive 429 is
\* 2^(k-1) seconds; 429 answers never count against max_retries; three 429
\* answers followed by a success return after 1 + 2 + 4 = 7 seconds of sleep.
C8_BackoffSchedule ==
    /\ g_prev_run429 >= 1 => g_pre_sleep = Pow2(g_prev_run429 - 1)
    /\ g_run429 = g_requests => retries = 0
    /\ (g_result = "response" /\ g_requests = 4 /\ g_prev_run429 = 3) => g_slept = 7

\* C9: requests sent after a timeout, connection error or invalid JSON body
\* number at most max_retries per call, also after a 429; once the counter
\* exceeds max_retries the call has returned None and sends nothing more.
C9_TransientRetriesBounded ==
    /\ g_transient_retries <= 5
    /\ retries > 5 => (g_pc = "returned" /\ g_result = "None")
    /\ g_result = "None" => retries = 5 + 1

\* The bound was exhausted in a call that also went through the 429 loop.
C9_Witness ==
    /\ g_result = "None"
    /\ g_transient_retries = 5
    /\ delay >= 1

\* C10: a call that follows a successful one starts with the retry counter at
\* zero, and its first 429 is followed by a sleep of the base delay of 1 s,
\* whatever delay and counter the previous call had reached.
C10_RetryStateReset ==
    g_prev_result = "response"
    => (/\ g_requests = 0 => retries = 0
        /\ g_requests = 1 => retries <= 1
        /\ (g_requests = 1 /\ g_last_resp = "429") => (delay = 1 /\ retries = 0)
        /\ (g_requests = 2 /\ g_prev_run429 = 1) => g_pre_sleep = 1)

\* After a call that failed transiently (counter and delay raised) and then
\* succeeded, the next call met a 429 and slept 1 s before its retry.
C10_Witness ==
    /\ g_prev_result = "response"
    /\ g_prev_retries >= 1
    /\ g_prev_delay >= 4
    /\ g_requests = 2
    /\ g_prev_run429 = 1
    /\ g_pre_sleep = 1

(***************************************************************************)
(* Error handling of the pollers and entrypoints                            *)
(***************************************************************************)
\* C12: while trigger_dbt_job waits for completion, a status request that fails
\* transiently (the request raises: timeout, connection error, body that is
\* not JSON) leaves the handler in its wait loop, with no exception raised.
C12_TransientPollKeepsPolling ==
    (WaitedRun /\ status_calls >= 1 /\ last_status.kind = "exception")
    => (pc = "poll" /\ exception = "none")

\* The exit codes FivetranClient defines for its ExitCodeException.
DefinedExitCodes ==
    {EXIT_CODE_INVALID_CREDENTIALS, EXIT_CODE_BAD_REQUEST,
     EXIT_CODE_SYNC_REFRESH_ERROR, EXIT_CODE_SYNC_INVALID_SOURCE_ID,
     EXIT_CODE_UNKNOWN_ERROR}

\* C13: whatever makes a request of FivetranClient fail (HTTP error status,
\* timeout, connection error, error body that is not JSON), the exception that
\* reaches the caller is an ExitCodeException with one of the defined codes.
C13_FailuresAreTyped ==
    ft_exception # "none"
    => (ft_exception = "ExitCodeException" /\ ft_exit_code \in DefinedExitCodes)

\* C14: a request answered with a non-2xx status ends in an ExitCodeException
\* whose code follows the precedence 401 -> 200, else body code
\* NotFound_Integration -> 204, else 400 -> 201, else 249, and trigger_sync and
\* get_connector_details pass that code on unchanged.
C14_ErrorPrecedence ==
    (ft_pc = "done" /\ ft_last_answer.kind = "http_error")
    => (/\ ft_exception = "ExitCodeException"
        /\ ft_exit_code = (IF ft_last_answer.status_code = 401 THEN 200
                           ELSE IF ft_last_answer.code = "NotFound_Integration" THEN 204
                           ELSE IF ft_last_answer.status_code = 400 THEN 201
                           ELSE 249))

\* C15: the Fivetran entrypoint never ends a failed trigger the way it ends a
\* successful one: it returns normally only when client.trigger_sync raised
\* nothing.
C15_FailedTriggerNotReturnedAsSuccess ==
    main_returned # "nothing" => ft_exception = "none"

(***************************************************************************)
(* Properties of okta dbt_run (SpecDbtRun)                                  *)
(***************************************************************************)
\* Answers that report a permanent, caller-fixable error: bad request, invalid
\* credentials, target not found.
PermanentAnswer(a) == a.kind = "http_error" /\ a.status_code \in {400, 401, 404}

\* C11: after a trigger answered with a permanent error (400, 401, 404)
\* dbt_run sends nothing more: it has returned.
C11_PermanentErrorsNotRetried ==
    (run_last_step = "trigger" /\ PermanentAnswer(run_last_trigger))
    => run_pc = "returned"

\* C17: in trigger_dbt_job a status request is sent only right after a sleep:
\* never directly after the trigger or after another status request.
C17_SleepBeforeEveryPoll ==
    [][status_calls' > status_calls => last_step = "sleep"]_vars

\* C18: the status checks of dbt_run that fail in a row are bounded: after
\* max_retries + 1 of them dbt_run checks no more.
C18_FailedChecksBounded ==
    run_failed_checks <= 4

\* C19: one call of dbt_run triggers at most 4 times; a trigger that is not the
\* first follows a failed trigger or a run that ended 20 or 30; after status 10
\* nothing more is sent; a run that ends 20 or 30 when retries = max_retries
\* is followed by the return.
C19_TriggersBounded ==
    [][/\ run_triggers' <= 4
       /\ (run_triggers' > run_triggers /\ run_triggers >= 1)
            => \/ run_last_step = "trigger" /\ job_run_id = "None"
               \/ run_last_step = "status" /\ run_status \in {20, 30}
       /\ run_status = 10 => (run_triggers' = run_triggers /\ run_polls' = run_polls)
       /\ (run_polls' > run_polls /\ run_status' = 10) => run_pc' = "returned"
       /\ (run_polls' > run_polls /\ run_status' \in {20, 30} /\ run_retries >= 3)
            => run_pc' = "returned"
       /\ (run_polls' > run_polls /\ run_status' \in {20, 30} /\ run_retries < 3)
            => (run_pc' = "trigger" /\ run_retries' = run_retries + 1)]_vars

\* The fourth trigger started a run that failed, and dbt_run returned.
C19_Witness ==
    /\ run_triggers = 4
    /\ run_polls >= 2
    /\ run_status = 20
    /\ run_retries = 3
    /\ run_pc = "returned"

(***************************************************************************)
(* Outcome of a poll on the two paths (SpecDbt)                             *)
(***************************************************************************)
\* The logical state a dbt status describes.
LogicalState(f) ==
    IF ~f.is_complete THEN "running"
    ELSE IF f.is_error THEN "failure"
    ELSE IF f.is_cancelled THEN "cancelled"
    ELSE "success"

\* The outcome trigger_dbt_job gave the last status answer.
DbtOutcome ==
    IF pc = "poll" THEN "poll"
    ELSE IF exception # "none" THEN "failure"
    ELSE IF returned = Completed200 THEN "success"
    ELSE "none"

\* The pair (succeeded_at, failed_at) that describes a logical state to
\* trigger_sync when the baseline read before the trigger was (ps, pf).
SyncPayload(state, ps, pf) ==
    CASE state = "running" -> <<ps, pf>>
      [] state = "success" -> <<ps + 1, pf>>
      [] OTHER -> <<ps, pf + 1>>

\* C16: for a status that describes a job still running, finished successfully
\* or finished with failure, trigger_dbt_job gives the outcome trigger_sync
\* gives the Fivetran payload of the same logical state: keep polling,
\* success, failure.
C16_SamePollOutcome ==
    (/\ WaitedRun
     /\ pc \in {"poll", "done"}
     /\ status_calls >= 1
     /\ last_status.kind = "ok"
     /\ LogicalState(last_status.flags) \in {"running", "success", "failure"})
    => \A ps \in Timestamps, pf \in Timestamps :
         LET new == SyncPayload(LogicalState(last_status.flags), ps, pf) IN
           DbtOutcome = SyncOutcome(ps, pf, new[1], new[2])

(***************************************************************************)
(* Properties of okta trigger_sync (SpecOktaSync)                           *)
(***************************************************************************)
CallsMade == [i \in 1..Len(sync_calls) |-> <<sync_calls[i].fn, sync_calls[i].arg>>]

\* C20: a trigger_sync that ends without exception has called, in this order,
\* sync_data for apps, users and groups, sync_all_users for group_members and
\* app_users, replace_dataset_bigquery, dbt_run("10206", "85521", "DBT_TOKEN")
\* and upload_log, each once.
C20_SuccessfulSyncCallOrder ==
    (sync_pc = "done" /\ sync_exception = "none")
    => CallsMade = << <<"sync_data", "apps">>, <<"sync_data", "users">>,
                      <<"sync_data", "groups">>,
                      <<"sync_all_users", "group_members">>,
                      <<"sync_all_users", "app_users">>,
                      <<"replace_dataset_bigquery", "none">>,
                      <<"dbt_run", "10206, 85521, DBT_TOKEN">>,
                      <<"upload_log", "none">> >>

\* The calls of trigger_sync that raised.
RaisedCalls == {i \in 1..Len(sync_calls) : sync_calls[i].outcome = "raised"}

\* C21: when a call of trigger_sync raises, the exception leaves trigger_sync
\* and no later call is made: the call that raised is the last one, and
\* replace_dataset_bigquery does not run after it.
C21_RaiseStopsTheSync ==
    /\ \A i \in RaisedCalls :
         /\ i = Len(sync_calls)
         /\ sync_pc = "done"
         /\ sync_exception = "Exception"
         /\ sync_log = "Okta sync job failed"
         /\ sync_calls[i].fn # "replace_dataset_bigquery"
              => \A j \in 1..Len(sync_calls) :
                   sync_calls[j].fn # "replace_dataset_bigquery"
    /\ sync_exception # "none" => RaisedCalls # {}

\* sync_all_users("group_members") raised after three sync_data calls returned.
C21_Witness ==
    /\ Len(sync_calls) = 4
    /\ sync_calls[4].outcome = "raised"
    /\ sync_pc = "done"
    /\ sync_exception = "Exception"

(***************************************************************************)
(* The wait loop of FivetranClient.trigger_sync (SpecFivetran)              *)
(***************************************************************************)
\* The wait loop has just been left by a poll that returned timestamps.
LeftLoopOnAnswer ==
    /\ ft_wait
    /\ ft_pc = "done"
    /\ ft_polls >= 1
    /\ ft_last_step = "status"
    /\ ft_last_answer.kind = "ok"

\* C22: while trigger_sync is in its wait loop every pair (succeeded_at,
\* failed_at) polled so far equals the pair read before the trigger; the poll
\* that ends the loop returned a different pair; exit code 202 is raised
\* exactly when failed_at of that poll differs from the baseline failed_at,
\* and otherwise trigger_sync returns normally.
C22_LoopLeavesOnFirstChange ==
    /\ ft_pc = "wait" => (new_success = prev_success /\ new_failure = prev_failure)
    /\ LeftLoopOnAnswer
       => (/\ new_success = ft_last_answer.succeeded_at
           /\ new_failure = ft_last_answer.failed_at
           /\ <<new_success, new_failure>> # <<prev_success, prev_failure>>
           /\ (new_failure # prev_failure)
                => (ft_exception = "ExitCodeException" /\ ft_exit_code = 202)
           /\ (new_failure = prev_failure)
                => (ft_exception = "none" /\ ft_exit_code = 0))

\* After unchanged polls, a poll showed a failure later than the baseline one.
C22_Witness ==
    /\ LeftLoopOnAnswer
    /\ ft_polls >= 2
    /\ prev_failure # 0
    /\ new_failure # 0
    /\ new_failure # prev_failure
    /\ ft_exit_code = 202

(***************************************************************************)
(* trigger_sync and the other syncs of its connector (SpecFivetranRace)     *)
(***************************************************************************)
\* C23: when trigger_sync(wait_for_completion=True) returns normally, the sync
\* its own force request started has finished successfully, whatever other
\* syncs ran on the connector meanwhile.
C23_NormalReturnMeansOwnSyncSucceeded ==
    (ft_wait /\ ft_pc = "done" /\ ft_force_calls = 1 /\ ft_exception = "none")
    => own_sync = "succeeded"

(***************************************************************************)
(* One response for classification and summary (SpecDbt)                    *)
(***************************************************************************)
\* C24: the classification of a completed run is derived from the status
\* response that ended the wait loop, the one the failure summary is built
\* from; the handler does not end in failure when that response described a
\* successful run.
C24_ClassifiedFromLoopResponse ==
    LoopSawComplete =>
      /\ exit_code = determine_run_status(run_details.data)
      /\ (determine_run_status(run_details.data) = EXIT_SUCCESS
            => exception # "RuntimeError")

(***************************************************************************)
(* get_request inside its 429 backoff loop (SpecGet)                        *)
(***************************************************************************)
\* C25: no request failure escapes get_request as an exception: a timeout, a
\* connection error or another RequestException is counted and retried
\* wherever it occurs, so a call ends only by returning a Response or None.
C25_NoRequestFailureEscapes ==
    g_last_resp \in NetworkFailures => g_pc # "raised"

\* C26: every HTTP error other than 429 counts one retry against max_retries,
\* also when it answers a request of the 429 backoff loop.
C26_HttpErrorsCountAfter429 ==
    [][(g_requests' = g_requests + 1 /\ g_last_resp' = "http_error")
         => retries' = retries + 1]_vars

(***************************************************************************)
(* Properties of dbt-webhook's webhook_handler (SpecWebhook)                *)
(***************************************************************************)
\* The request is one the handler may publish for: its header is accepted by
\* verify_dbt_signature, its body is a JSON object with eventType
\* job.run.completed and a success status, and its job id has a mapping.
PublishableRequest ==
    /\ verify_dbt_signature(wh_request.authorization, wh_request.secret)
    /\ wh_request.body.kind = "object"
    /\ wh_request.body.eventType = [type |-> "str", text |-> "job.run.completed"]
    /\ wh_request.body.data.kind # "null"
    /\ \/ wh_request.body.data.fields.runStatus = [type |-> "str", text |-> "Success"]
       \/ wh_request.body.data.fields.runStatusCode \in
            {[type |-> "int", text |-> "10"], [type |-> "float", text |-> "10.0"]}
    /\ wh_request.body.data.fields.jobId.type # "absent"
    /\ wh_request.body.data.fields.jobId.text = "23366"

\* C27: webhook_handler calls publish at most once per request, and only for a
\* request with an accepted authorization header, a JSON body with eventType
\* job.run.completed and a success status (runStatus 'Success' or
\* runStatusCode 10), and a job id that has a Fabric mapping; for every other
\* request nothing is published.
C27_PublishOnlyForMappedSuccess ==
    /\ wh_publish_calls <= 1
    /\ wh_published <= wh_publish_calls
    /\ wh_publish_calls = 1 => PublishableRequest
    /\ (wh_pc = "done" /\ ~PublishableRequest) => wh_published = 0

\* A message was published for a request whose status is a success by its
\* status code alone.
C27_Witness ==
    /\ wh_pc = "done"
    /\ wh_published = 1
    /\ wh_request.authorization = "hmac_of_body"
    /\ wh_request.body.data.fields.runStatus.text = "Error"
    /\ wh_response = Response("Fabric job request published", 200)

\* C28: an authenticated webhook with a well-formed JSON body whose event type
\* is not job.run.completed is answered 200 'Event ignored - not a successful
\* job completion', not with a 4xx error.
C28_OtherEventsIgnoredWith200 ==
    (/\ wh_pc = "done"
     /\ verify_dbt_signature(wh_request.authorization, wh_request.secret)
     /\ wh_request.body.kind = "object"
     /\ wh_request.body.eventType = [type |-> "str", text |-> "job.run.started"])
    => wh_response = Response("Event ignored - not a successful job completion", 200)

(***************************************************************************)
(* Properties of process-geography's main (SpecGeo)                         *)
(***************************************************************************)
\* C29: main publishes the 'cloud-run-job-completed' message at most once, and
\* only after all 18 loads have been called in order and none has raised; when
\* a load raises, nothing is published, the loads after it are not called and
\* the process exits with status 1.
C29_PublishOnlyAfterAllLoads ==
    /\ geo_publish_calls <= 1
    /\ geo_published <= geo_publish_calls
    /\ geo_publish_calls = 1 => (geo_calls = GeoLoads /\ geo_failed_load = "none")
    /\ geo_failed_load # "none" =>
         /\ geo_publish_calls = 0
         /\ geo_calls[Len(geo_calls)] = geo_failed_load
         /\ geo_calls = SubSeq(GeoLoads, 1, Len(geo_calls))
         /\ geo_pc = "exited"
         /\ geo_exit_status = 1

\* All 18 loads returned, the message was published once and main returned.
C29_Witness ==
    /\ geo_pc = "exited"
    /\ Len(geo_calls) = 18
    /\ geo_failed_load = "none"
    /\ geo_published = 1
    /\ geo_exit_status = 0

====
